---- MODULE Spec2Model ----
(***************************************************************************)
(* Authentication core of the Brews & Chews storefront (accounts app):    *)
(* the IP rate limiter over the AuthenticationEvent table, the per-user   *)
(* lockout fields of User, and the login and signup views that use them.  *)
(*                                                                         *)
(* Time is counted in whole seconds.  A view runs at one instant `now`;   *)
(* the clock advances between requests (Tick).  The views are written as  *)
(* operators from the database (users, events) and a request to the new   *)
(* database and the response, so that the same operators build both the   *)
(* traffic the database has already seen (Init) and the steps (Next).     *)
(***************************************************************************)
EXTENDS Integers, Sequences, FiniteSets, TLC

(***************************************************************************)
(* Bounds of the model.                                                    *)
(***************************************************************************)
\* requests handled after the recorded history
MaxRequests == 1
\* repetitions of one request in the recorded history
MaxWarm == 5
\* the clock advances at most this many times
MaxTicks == 5
\* requests in flight at once in the interleaved specification
MaxThreads == 3
\* seconds that pass while requests are in flight
MaxDrift == 1
\* signups and username changes in flight at once
MaxSignups == 2
\* logins on one account in flight at once
MaxLogins == 3

(***************************************************************************)
(* Settings of accounts/views.py, timedelta values in seconds.            *)
(***************************************************************************)
SIGNUP_RATE_LIMIT == 5
SIGNUP_RATE_WINDOW == 3600
LOGIN_RATE_LIMIT == 5
LOGIN_RATE_WINDOW == 900
LOGIN_LOCK_THRESHOLD == 5
LOGIN_LOCK_DURATION == 3600

\* brewschews/settings.py: the key, base64 of 32 bytes
ACCOUNT_EMAIL_ENCRYPTION_KEY == "key-A"

\* Python's None for a nullable DateTimeField / optional seconds value
None == -1
\* a null user foreign key, request.user anonymous
NoUser == 0

LOGIN == "login"
SIGNUP == "signup"

VARIABLES
    now,      \* timezone.now(), seconds
    users,    \* table accounts_user: sequence of rows, pk = index
    events,   \* table accounts_authenticationevent, in insertion order
    nreq,     \* number of requests handled since the recorded history
    req,      \* the last request handled
    resp,     \* the response to it
    store,    \* whether SELECT and INSERT on the event table work
    threads,  \* the requests in flight: position in the view and local variables
    key       \* settings.ACCOUNT_EMAIL_ENCRYPTION_KEY as the process reads it

vars == <<now, users, events, nreq, req, resp, store, threads, key>>

(***************************************************************************)
(* Strings.  The model uses a small universe of strings; lower() and      *)
(* strip() are tabulated on it.                                            *)
(***************************************************************************)
lower(s) ==
    CASE s = "ALICE" -> "alice"
      [] s = "ALICE@example.com" -> "alice@example.com"
      [] s = "ALICE@EXAMPLE.COM" -> "alice@example.com"
      [] s = "BOB@example.com" -> "bob@example.com"
      [] s = "CAROL@example.com" -> "carol@example.com"
      [] s = "BOB@EXAMPLE.COM" -> "bob@example.com"
      [] s = "CAROL" -> "carol"
      [] s = "CAROL@EXAMPLE.COM" -> "carol@example.com"
      [] OTHER -> s

strip(s) ==
    CASE s = " alice@example.com " -> "alice@example.com"
      [] s = " bob@example.com " -> "bob@example.com"
      [] s = " carol@example.com " -> "carol@example.com"
      [] s = " " -> ""
      [] OTHER -> s

\* strings of the universe that contain an "@"
HasAt(s) == s \in {"alice@example.com", "ALICE@EXAMPLE.COM", " alice@example.com ",
                   "ALICE@example.com", "BOB@EXAMPLE.COM", " bob@example.com ",
                   "CAROL@EXAMPLE.COM", " carol@example.com ",
                   "bob@example.com", "carol@example.com", "weak@example.com",
                   "nobody@example.com",
                   "test0@example.com", "test1@example.com", "test2@example.com",
                   "test3@example.com", "test4@example.com", "test5@example.com",
                   "test6@example.com", "test7@example.com"}

\* USERNAME_PATTERN ^[A-Za-z0-9._-]{3,30}$ on the universe
USERNAME_PATTERN(s) == s \in {"alice", "ALICE", "bob", "carol", "CAROL", "nobody", "weakpass",
                              "testuser0", "testuser1", "testuser2", "testuser3",
                              "testuser4", "testuser5", "testuser6", "testuser7"}

\* generate_email_digest without .lower(): the digest of the address as typed
generate_email_digest_as_typed(email) == <<"sha256", strip(email)>>

\* generate_email_digest: SHA-256 of the lowercased, stripped email
generate_email_digest(email) == <<"sha256", strip(lower(email))>>

\* get_encryption_key: the setting must be present, base64, and decode to 32
\* bytes, else MissingEncryptionKeyError; "key-A" and "key-B" are such keys
get_encryption_key_raises(k) == k \notin {"key-A", "key-B"}

\* encrypt_email: nonce, then AES-256-GCM of the lowercased, stripped email
\* with its authentication tag (the tuple names the key that verifies the tag)
encrypt_email(email, k) == <<"nonce", k, strip(lower(email)), "tag">>

\* decrypt_email: the plaintext, or the exception that leaves the function
decrypt_email(encrypted_data, k) ==
    IF Len(encrypted_data) < 2
    THEN [value |-> "", raised |-> "DecryptionFailedError"]
    ELSE IF get_encryption_key_raises(k)
    THEN [value |-> "", raised |-> "MissingEncryptionKeyError"]
    ELSE IF encrypted_data[2] # k \/ encrypted_data[4] # "tag"
    THEN [value |-> "", raised |-> "DecryptionFailedError"]
    ELSE [value |-> encrypted_data[3], raised |-> ""]

\* SignupForm._validate_password_strength together with Django's validators,
\* on the passwords of the universe
password_is_strong(p) == p \in {"StrongPass1!", "AlicePass123!"}

\* make_password / check_password: the hash matches exactly its own plaintext
make_password(p) == <<"argon2", p>>
check_password(user, p) == user.password = make_password(p)

(***************************************************************************)
(* models.py: User                                                         *)
(***************************************************************************)

\* save without the WHERE pk = ... clause: every row gets the fields
save_every_row(tbl, self, update_fields) ==
    [pk \in DOMAIN tbl |->
        [f \in DOMAIN tbl[pk] |-> IF f \in update_fields THEN self[f] ELSE tbl[pk][f]]]

\* Model.save(update_fields=...): write the named fields of the in-memory
\* object `self` to its row
save(tbl, self, update_fields) ==
    [tbl EXCEPT ![self.pk] =
        [f \in DOMAIN @ |-> IF f \in update_fields THEN self[f] ELSE @[f]]]

\* BaseUserManager.normalize_email lowercases the domain part only
normalize_email(email) ==
    CASE email = "ALICE@EXAMPLE.COM" -> "ALICE@example.com"
      [] email = "BOB@EXAMPLE.COM" -> "BOB@example.com"
      [] email = "CAROL@EXAMPLE.COM" -> "CAROL@example.com"
      [] OTHER -> email

\* create_user with a new account that starts with one failure counted
create_user_one_failure(tbl, username, email, password) ==
    Append(tbl, [email |-> normalize_email(email),
                 password |-> make_password(password), pk |-> Len(tbl) + 1,
                 username |-> username,
                 email_digest |-> generate_email_digest(normalize_email(email)),
                 encrypted_email |-> encrypt_email(normalize_email(email),
                                                   ACCOUNT_EMAIL_ENCRYPTION_KEY),
                 failed_login_attempts |-> 1, locked_until |-> None,
                 last_failed_login_at |-> None])

\* the UNIQUE constraints with the one on email_digest missing
IntegrityError_username_only(tbl, row) ==
    \E pk \in DOMAIN tbl : pk # row.pk /\ tbl[pk].username = row.username

\* the UNIQUE constraints of the table (username, compared byte by byte, and
\* email_digest): INSERT or UPDATE of `row` raises IntegrityError
IntegrityError(tbl, row) ==
    \E pk \in DOMAIN tbl :
        /\ pk # row.pk
        /\ \/ tbl[pk].username = row.username
           \/ tbl[pk].email_digest = row.email_digest

\* UserManager.create_user: insert a new row; User.save computes the digest
create_user(tbl, username, email, password) ==
    Append(tbl, [email |-> normalize_email(email),
                 password |-> make_password(password), pk |-> Len(tbl) + 1,
                 username |-> username,
                 email_digest |-> generate_email_digest(normalize_email(email)),
                 encrypted_email |-> encrypt_email(normalize_email(email),
                                                   ACCOUNT_EMAIL_ENCRYPTION_KEY),
                 failed_login_attempts |-> 0, locked_until |-> None,
                 last_failed_login_at |-> None])

\* a row that is no user: find_user() returned None, or the row was deleted
NoRow == [email |-> "", password |-> <<>>, pk |-> NoUser, username |-> "",
          email_digest |-> <<>>, encrypted_email |-> <<>>,
          failed_login_attempts |-> 0, locked_until |-> None,
          last_failed_login_at |-> None]

\* User.email_decrypted of an object whose _email_cache holds `cache` ("" for
\* an object just loaded): only DecryptionFailedError is caught
email_decrypted(self, cache, k) ==
    LET d == decrypt_email(self.encrypted_email, k)
    IN IF cache # "" THEN [value |-> cache, raised |-> ""]
       ELSE IF self.encrypted_email # <<>> /\ d.raised = "" THEN d
       ELSE IF self.encrypted_email # <<>> /\ d.raised # "DecryptionFailedError" THEN d
       ELSE IF self.email # "" THEN [value |-> self.email, raised |-> ""]
       ELSE [value |-> "", raised |-> ""]

\* each of the three methods returns the in-memory object and the table

\* mark_login_failure that starts the count again at 1 when the last failure
\* is not of this instant
mark_login_failure_restart(tbl, self, t) ==
    LET s == [self EXCEPT !.failed_login_attempts =
                              IF self.last_failed_login_at # None
                                 /\ self.last_failed_login_at < t THEN 1 ELSE @ + 1,
                          !.last_failed_login_at = t]
    IN [users |-> save(tbl, s, {"failed_login_attempts", "last_failed_login_at"}),
        self |-> s]

mark_login_failure(tbl, self, t) ==
    LET s == [self EXCEPT !.failed_login_attempts = @ + 1,
                          !.last_failed_login_at = t]
    IN [users |-> save(tbl, s, {"failed_login_attempts", "last_failed_login_at"}),
        self |-> s]


\* reset_login_failures that leaves last_failed_login_at alone
reset_login_failures_keeps_last(tbl, self) ==
    LET s == [self EXCEPT !.failed_login_attempts = 0, !.locked_until = None]
    IN [users |-> save(tbl, s, {"failed_login_attempts", "locked_until"}), self |-> s]

reset_login_failures(tbl, self) ==
    LET s == [self EXCEPT !.failed_login_attempts = 0,
                          !.locked_until = None,
                          !.last_failed_login_at = None]
    IN [users |-> save(tbl, s, {"failed_login_attempts", "locked_until", "last_failed_login_at"}),
        self |-> s]

lock_for(tbl, self, duration, t) ==
    LET s == [self EXCEPT !.locked_until = t + duration]
    IN [users |-> save(tbl, s, {"locked_until"}), self |-> s]


\* is_locked with the comparison turned round
is_locked_inverted(self, t) == self.locked_until # None /\ self.locked_until < t

\* is_locked with the expiry instant still counted as locked
is_locked_inclusive(self, t) == self.locked_until # None /\ self.locked_until >= t

is_locked(self, t) == self.locked_until # None /\ self.locked_until > t

(***************************************************************************)
(* views.py: audit log and rate limiter                                    *)
(***************************************************************************)
\* the table of AuthenticationEvent as a request meets it: its rows, whether
\* SELECT and INSERT work (a DatabaseError is raised when they do not), and
\* whether a DatabaseError has left a function of views.py uncaught
EventTable(rows, readable, writable) ==
    [raised |-> FALSE, rows |-> rows, readable |-> readable, writable |-> writable]


\* _record_event without the except clause: the DatabaseError propagates
_record_event_uncaught(log, t, event_type, ip_address, username, user, successful, reason) ==
    IF ~log.writable THEN [log EXCEPT !.raised = TRUE]
    ELSE [log EXCEPT !.rows = Append(@, [user |-> user, event_type |-> event_type,
                                         ip_address |-> ip_address,
                                         successful |-> successful, reason |-> reason,
                                         username_submitted |-> username,
                                         created_at |-> t])]

\* objects.create inside try; except DatabaseError: logger.exception, no re-raise
_record_event(log, t, event_type, ip_address, username, user, successful, reason) ==
    IF ~log.writable THEN log
    ELSE [log EXCEPT !.rows = Append(@, [user |-> user, event_type |-> event_type,
                                         ip_address |-> ip_address,
                                         successful |-> successful, reason |-> reason,
                                         username_submitted |-> username,
                                         created_at |-> t])]

\* the queryset with created_at__gt: an event exactly one window old is left out
_window_queryset_exclusive(log, t, event_type, ip_address, window, successful) ==
    LET cutoff == t - window
    IN {i \in 1..Len(log.rows) :
            /\ log.rows[i].event_type = event_type
            /\ log.rows[i].ip_address = ip_address
            /\ log.rows[i].created_at > cutoff
            /\ log.rows[i].successful \in successful}

\* the queryset of both limiter functions; `successful` is the set of accepted
\* values of the column: BOOLEAN for successful=None, {FALSE} for successful=False
_window_queryset(log, t, event_type, ip_address, window, successful) ==
    LET cutoff == t - window
    IN {i \in 1..Len(log.rows) :
            /\ log.rows[i].event_type = event_type
            /\ log.rows[i].ip_address = ip_address
            /\ log.rows[i].created_at >= cutoff
            /\ log.rows[i].successful \in successful}


\* _is_rate_limited that needs more than `limit` events
_is_rate_limited_above(log, t, event_type, ip_address, window, limit, successful) ==
    IF ~log.readable THEN FALSE
    ELSE Cardinality(_window_queryset(log, t, event_type, ip_address, window, successful))
            > limit

\* _is_rate_limited that treats a failed query as "limited"
_is_rate_limited_closed(log, t, event_type, ip_address, window, limit, successful) ==
    IF ~log.readable THEN TRUE
    ELSE Cardinality(_window_queryset(log, t, event_type, ip_address, window, successful))
            >= limit

\* except DatabaseError: return False
_is_rate_limited(log, t, event_type, ip_address, window, limit, successful) ==
    IF ~log.readable THEN FALSE
    ELSE Cardinality(_window_queryset(log, t, event_type, ip_address, window, successful))
            >= limit

\* _get_rate_limit_reset_time returning the time of the oldest event itself
_get_rate_limit_reset_time_no_window(log, t, event_type, ip_address, window, successful) ==
    IF ~log.readable THEN None
    ELSE LET qs == _window_queryset(log, t, event_type, ip_address, window, successful)
         IN IF qs = {} THEN None
            ELSE LET oldest == CHOOSE i \in qs :
                                  \A j \in qs : log.rows[i].created_at <= log.rows[j].created_at
                 IN log.rows[oldest].created_at

\* except DatabaseError: return None
_get_rate_limit_reset_time(log, t, event_type, ip_address, window, successful) ==
    IF ~log.readable THEN None
    ELSE LET qs == _window_queryset(log, t, event_type, ip_address, window, successful)
         IN IF qs = {} THEN None
            ELSE LET oldest == CHOOSE i \in qs :
                                  \A j \in qs : log.rows[i].created_at <= log.rows[j].created_at
                 IN log.rows[oldest].created_at + window

max(a, b) == IF a >= b THEN a ELSE b

\* lockout_seconds = max(1, int((reset_time - now).total_seconds())), when
\* reset_time is not None
_lockout_seconds(reset_time, t) ==
    IF reset_time = None THEN None ELSE max(1, reset_time - t)

(***************************************************************************)
(* forms.py                                                                *)
(***************************************************************************)
\* LoginForm.is_valid: both CharFields are required (and stripped)
LoginForm_is_valid(identifier, password) ==
    strip(identifier) # "" /\ strip(password) # ""

\* LoginForm.clean_identifier / get_identifier
get_identifier(identifier) == strip(identifier)

\* QuerySet.first(): the matching row of lowest pk, NoUser for None
first(qs) ==
    IF qs = {} THEN NoUser ELSE CHOOSE pk \in qs : \A other \in qs : pk <= other

find_user(tbl, identifier, password) ==
    IF ~LoginForm_is_valid(identifier, password) THEN NoUser
    ELSE LET ident == get_identifier(identifier)
         IN IF HasAt(ident)
            THEN first({pk \in 1..Len(tbl) :
                          tbl[pk].email_digest = generate_email_digest(ident)})
            ELSE first({pk \in 1..Len(tbl) :
                          lower(tbl[pk].username) = lower(ident)})

\* SignupForm.clean_username
clean_username_ok(tbl, username) ==
    /\ USERNAME_PATTERN(strip(username))
    /\ ~\E pk \in 1..Len(tbl) : lower(tbl[pk].username) = lower(strip(username))

\* clean_email comparing the digest of the address as typed
clean_email_ok_as_typed(tbl, email) ==
    /\ HasAt(email)
    /\ ~\E pk \in 1..Len(tbl) :
            tbl[pk].email_digest = generate_email_digest_as_typed(email)

\* SignupForm.clean_email (EmailField: an address has an "@")
clean_email_ok(tbl, email) ==
    /\ HasAt(email)
    /\ ~\E pk \in 1..Len(tbl) :
            tbl[pk].email_digest = generate_email_digest(lower(strip(email)))

\* SignupForm.clean
clean_ok(password, confirm_password) ==
    /\ password # "" /\ confirm_password # ""
    /\ password_is_strong(password)
    /\ password = confirm_password

SignupForm_is_valid(tbl, form) ==
    /\ clean_username_ok(tbl, form.username)
    /\ clean_email_ok(tbl, form.email)
    /\ clean_ok(form.password, form.confirm_password)

\* SignupForm.save
SignupForm_save(tbl, form) ==
    create_user(tbl, strip(form.username), lower(strip(form.email)), form.password)

(***************************************************************************)
(* views.py: login_view and signup_view, POST                              *)
(***************************************************************************)
MSG_THROTTLED == "Too many sign-in attempts. Please wait before trying again."
MSG_LOCKED == "Your account is locked. Please wait before trying again."
MSG_LOCKED_NOW == "Too many failed attempts. Your account is locked. Please wait before trying again."
MSG_INVALID == "Invalid username or password."
MSG_ENTER == "Enter your username/email and password to continue."
MSG_SIGNUP_THROTTLED == "Too many sign-up attempts from this network. Please wait before trying again."
MSG_FIELD_ERRORS == "field errors"
MSG_NONE == ""

\* a rendered page (status 200) or a redirect to the menu (status 302);
\* session_user is the user login(request, user) put into the session
Response(status, alert_message, lockout_seconds, session_user) ==
    [status |-> status, alert_message |-> alert_message,
     lockout_seconds |-> lockout_seconds, session_user |-> session_user]

Result(tbl, log, response) == [users |-> tbl, events |-> log, resp |-> response]


\* the login limit counting every login event, successful or not
login_is_ip_rate_limited_all(log, t, ip_address) ==
    _is_rate_limited(log, t, LOGIN, ip_address, LOGIN_RATE_WINDOW, LOGIN_RATE_LIMIT, BOOLEAN)

login_is_ip_rate_limited(log, t, ip_address) ==
    _is_rate_limited(log, t, LOGIN, ip_address, LOGIN_RATE_WINDOW, LOGIN_RATE_LIMIT, {FALSE})

\* the throttled branch recording the attempt as a failed login
login_throttled_recorded(tbl, log, t, ip_address) ==
    LET reset_time == _get_rate_limit_reset_time(log, t, LOGIN, ip_address,
                                                 LOGIN_RATE_WINDOW, {FALSE})
    IN Result(tbl,
              _record_event(log, t, LOGIN, ip_address, "", NoUser, FALSE, "ip_rate_limited"),
              Response(200, MSG_THROTTLED, _lockout_seconds(reset_time, t), NoUser))

\* lines 180-192: the countdown of a throttled login
login_throttled(tbl, log, t, ip_address) ==
    LET reset_time == _get_rate_limit_reset_time(log, t, LOGIN, ip_address,
                                                 LOGIN_RATE_WINDOW, {FALSE})
    IN Result(tbl, log, Response(200, MSG_THROTTLED, _lockout_seconds(reset_time, t), NoUser))

\* the locked branch starting the lock again at each attempt
login_account_locked_renews(tbl, log, t, ip_address, identifier, user) ==
    LET l == lock_for(tbl, user, LOGIN_LOCK_DURATION, t)
    IN Result(l.users,
              _record_event(log, t, LOGIN, ip_address, identifier, user.pk, FALSE,
                            "account_locked"),
              Response(200, MSG_LOCKED, max(1, l.self.locked_until - t), NoUser))

\* the locked branch counting the attempt as a failure
login_account_locked_counts(tbl, log, t, ip_address, identifier, user) ==
    LET m == mark_login_failure(tbl, user, t)
    IN Result(m.users,
              _record_event(log, t, LOGIN, ip_address, identifier, user.pk, FALSE,
                            "account_locked"),
              Response(200, MSG_LOCKED, max(1, user.locked_until - t), NoUser))

\* the locked branch with the subtraction turned around
login_account_locked_elapsed(tbl, log, t, ip_address, identifier, user) ==
    LET lockout_seconds == IF user.locked_until # None
                           THEN max(1, t - user.locked_until) ELSE 3600
    IN Result(tbl,
              _record_event(log, t, LOGIN, ip_address, identifier, user.pk, FALSE,
                            "account_locked"),
              Response(200, MSG_LOCKED, lockout_seconds, NoUser))

\* lines 203-220: the account is locked
login_account_locked(tbl, log, t, ip_address, identifier, user) ==
    LET lockout_seconds == IF user.locked_until # None
                           THEN max(1, user.locked_until - t) ELSE 3600
    IN Result(tbl,
              _record_event(log, t, LOGIN, ip_address, identifier, user.pk, FALSE,
                            "account_locked"),
              Response(200, MSG_LOCKED, lockout_seconds, NoUser))

\* the unknown-identifier branch with a message of its own
login_unknown_identifier_no_account(tbl, log, t, ip_address, identifier) ==
    Result(tbl,
           _record_event(log, t, LOGIN, ip_address, identifier, NoUser, FALSE,
                         "unknown_identifier"),
           Response(200, "No account matches that username or email.", None, NoUser))

\* lines 223-232: no such user
login_unknown_identifier(tbl, log, t, ip_address, identifier) ==
    Result(tbl,
           _record_event(log, t, LOGIN, ip_address, identifier, NoUser, FALSE,
                         "unknown_identifier"),
           Response(200, MSG_INVALID, None, NoUser))


\* the wrong-password branch without lines 243-244 (counter not cleared on lock)
login_wrong_password_no_clear(tbl, log, t, ip_address, identifier, user) ==
    LET m == mark_login_failure(tbl, user, t)
        locked_now == m.self.failed_login_attempts >= LOGIN_LOCK_THRESHOLD
        l == lock_for(m.users, m.self, LOGIN_LOCK_DURATION, t)
        lockout_seconds == IF locked_now /\ l.self.locked_until # None
                           THEN max(1, l.self.locked_until - t) ELSE None
    IN Result(IF locked_now THEN l.users ELSE m.users,
              _record_event(log, t, LOGIN, ip_address, identifier, user.pk, FALSE,
                            IF locked_now THEN "account_locked" ELSE "password_mismatch"),
              Response(200, IF locked_now THEN MSG_LOCKED_NOW ELSE MSG_INVALID,
                       lockout_seconds, NoUser))

\* the wrong-password branch recording password_mismatch also when it locks
login_wrong_password_mismatch_reason(tbl, log, t, ip_address, identifier, user) ==
    LET m == mark_login_failure(tbl, user, t)
        locked_now == m.self.failed_login_attempts >= LOGIN_LOCK_THRESHOLD
        l == lock_for(m.users, m.self, LOGIN_LOCK_DURATION, t)
        cleared == [l.self EXCEPT !.failed_login_attempts = 0]
        tbl2 == IF locked_now THEN save(l.users, cleared, {"failed_login_attempts"})
                ELSE m.users
        lockout_seconds == IF locked_now /\ cleared.locked_until # None
                           THEN max(1, cleared.locked_until - t) ELSE None
    IN Result(tbl2,
              _record_event(log, t, LOGIN, ip_address, identifier, user.pk, FALSE,
                            "password_mismatch"),
              Response(200, IF locked_now THEN MSG_LOCKED_NOW ELSE MSG_INVALID,
                       lockout_seconds, NoUser))

\* the wrong-password branch that sets the counter to 1, not 0, when it locks
login_wrong_password_clear_to_one(tbl, log, t, ip_address, identifier, user) ==
    LET m == mark_login_failure(tbl, user, t)
        locked_now == m.self.failed_login_attempts >= LOGIN_LOCK_THRESHOLD
        l == lock_for(m.users, m.self, LOGIN_LOCK_DURATION, t)
        cleared == [l.self EXCEPT !.failed_login_attempts = 1]
        tbl2 == IF locked_now THEN save(l.users, cleared, {"failed_login_attempts"})
                ELSE m.users
        lockout_seconds == IF locked_now /\ cleared.locked_until # None
                           THEN max(1, cleared.locked_until - t) ELSE None
    IN Result(tbl2,
              _record_event(log, t, LOGIN, ip_address, identifier, user.pk, FALSE,
                            IF locked_now THEN "account_locked" ELSE "password_mismatch"),
              Response(200, IF locked_now THEN MSG_LOCKED_NOW ELSE MSG_INVALID,
                       lockout_seconds, NoUser))

\* lines 235-265: wrong password
login_wrong_password(tbl, log, t, ip_address, identifier, user) ==
    LET m == mark_login_failure(tbl, user, t)
        locked_now == m.self.failed_login_attempts >= LOGIN_LOCK_THRESHOLD
        l == lock_for(m.users, m.self, LOGIN_LOCK_DURATION, t)
        cleared == [l.self EXCEPT !.failed_login_attempts = 0]
        tbl2 == IF locked_now THEN save(l.users, cleared, {"failed_login_attempts"})
                ELSE m.users
        lockout_seconds == IF locked_now /\ cleared.locked_until # None
                           THEN max(1, cleared.locked_until - t) ELSE None
    IN Result(tbl2,
              _record_event(log, t, LOGIN, ip_address, identifier, user.pk, FALSE,
                            IF locked_now THEN "account_locked" ELSE "password_mismatch"),
              Response(200, IF locked_now THEN MSG_LOCKED_NOW ELSE MSG_INVALID,
                       lockout_seconds, NoUser))

\* lines 268-279: all checks passed
login_success(tbl, log, t, ip_address, identifier, user) ==
    LET r == reset_login_failures(tbl, user)
    IN Result(r.users,
              _record_event(log, t, LOGIN, ip_address, identifier, user.pk, TRUE, ""),
              Response(302, MSG_NONE, None, user.pk))

\* login_view for a GET: the form, with the countdown when the address is throttled
login_page(tbl, log, t, ip_address) ==
    IF login_is_ip_rate_limited(log, t, ip_address)
    THEN login_throttled(tbl, log, t, ip_address)
    ELSE Result(tbl, log, Response(200, MSG_NONE, None, NoUser))

\* login_view for a POST
login_view(tbl, log, t, ip_address, identifier, password) ==
    IF login_is_ip_rate_limited(log, t, ip_address)
    THEN login_throttled(tbl, log, t, ip_address)
    ELSE IF ~LoginForm_is_valid(identifier, password)
    THEN Result(tbl, log, Response(200, MSG_ENTER, None, NoUser))
    ELSE LET ident == get_identifier(identifier)
             pk == find_user(tbl, identifier, password)
         IN IF pk # NoUser /\ is_locked(tbl[pk], t)
            THEN login_account_locked(tbl, log, t, ip_address, ident, tbl[pk])
            ELSE IF pk = NoUser
            THEN login_unknown_identifier(tbl, log, t, ip_address, ident)
            ELSE IF ~check_password(tbl[pk], password)
            THEN login_wrong_password(tbl, log, t, ip_address, ident, tbl[pk])
            ELSE login_success(tbl, log, t, ip_address, ident, tbl[pk])


\* the signup limit counting failed signups only
signup_is_ip_rate_limited_failed(log, t, ip_address) ==
    _is_rate_limited(log, t, SIGNUP, ip_address, SIGNUP_RATE_WINDOW, SIGNUP_RATE_LIMIT,
                     {FALSE})

signup_is_ip_rate_limited(log, t, ip_address) ==
    _is_rate_limited(log, t, SIGNUP, ip_address, SIGNUP_RATE_WINDOW, SIGNUP_RATE_LIMIT,
                     BOOLEAN)

\* lines 318-329: the countdown of a throttled signup
signup_throttled(tbl, log, t, ip_address) ==
    LET reset_time == _get_rate_limit_reset_time(log, t, SIGNUP, ip_address,
                                                 SIGNUP_RATE_WINDOW, BOOLEAN)
    IN Result(tbl, log, Response(200, MSG_SIGNUP_THROTTLED,
                                 _lockout_seconds(reset_time, t), NoUser))

\* signup_view for a GET
signup_page(tbl, log, t, ip_address) ==
    IF signup_is_ip_rate_limited(log, t, ip_address)
    THEN signup_throttled(tbl, log, t, ip_address)
    ELSE Result(tbl, log, Response(200, MSG_NONE, None, NoUser))

\* lines 331-365: the form of a signup that is not throttled
signup_submit(tbl, log, t, ip_address, form) ==
    IF SignupForm_is_valid(tbl, form)
    THEN LET tbl2 == SignupForm_save(tbl, form)
             user == tbl2[Len(tbl2)]
         IN Result(tbl2,
                   _record_event(log, t, SIGNUP, ip_address, user.username, user.pk,
                                 TRUE, ""),
                   Response(302, MSG_NONE, None, user.pk))
    ELSE Result(tbl,
                _record_event(log, t, SIGNUP, ip_address, form.username, NoUser, FALSE,
                              "validation_error"),
                Response(200, MSG_FIELD_ERRORS, None, NoUser))

\* signup_view for a POST
signup_view(tbl, log, t, ip_address, form) ==
    IF signup_is_ip_rate_limited(log, t, ip_address)
    THEN signup_throttled(tbl, log, t, ip_address)
    ELSE signup_submit(tbl, log, t, ip_address, form)

(***************************************************************************)
(* views.py: profile_view (username change) and delete_account_view, both *)
(* behind @login_required; `user` is request.user                          *)
(***************************************************************************)
MSG_USERNAME_CHANGED == "Username changed successfully."

\* ChangeUsernameForm.clean_new_username
clean_new_username_ok(tbl, user, new_username) ==
    /\ USERNAME_PATTERN(strip(new_username))
    /\ lower(strip(new_username)) # lower(user.username)
    /\ ~\E pk \in 1..Len(tbl) :
            pk # user.pk /\ lower(tbl[pk].username) = lower(strip(new_username))

\* ChangeUsernameForm.is_valid: clean_new_username and clean_password
ChangeUsernameForm_is_valid(tbl, user, new_username, password) ==
    /\ clean_new_username_ok(tbl, user, new_username)
    /\ check_password(user, password)

\* profile_view, POST with change_username
profile_view(tbl, log, user, new_username, password) ==
    IF ChangeUsernameForm_is_valid(tbl, user, new_username, password)
    THEN Result(save(tbl, [user EXCEPT !.username = strip(new_username)], {"username"}),
                log, Response(200, MSG_USERNAME_CHANGED, None, NoUser))
    ELSE Result(tbl, log, Response(200, MSG_FIELD_ERRORS, None, NoUser))

\* on_delete=models.SET_NULL of AuthenticationEvent.user
SET_NULL(rows, pk) ==
    [i \in DOMAIN rows |-> IF rows[i].user = pk THEN [rows[i] EXCEPT !.user = NoUser]
                           ELSE rows[i]]

\* Model.delete(): the row is gone (its pk is not given out again) and the
\* events that referred to it refer to nobody
delete(tbl, log, user) ==
    IF ~log.writable THEN [users |-> tbl, events |-> [log EXCEPT !.raised = TRUE]]
    ELSE [users |-> [tbl EXCEPT ![user.pk] = NoRow],
          events |-> [log EXCEPT !.rows = SET_NULL(@, user.pk)]]

\* delete_account_view: redirect to the profile without the right password,
\* else delete, log out and redirect to the home page
delete_account_view(tbl, log, user, password) ==
    IF password = "" \/ ~check_password(user, password)
    THEN Result(tbl, log, Response(302, MSG_NONE, None, NoUser))
    ELSE LET d == delete(tbl, log, user)
         IN Result(d.users, d.events, Response(302, MSG_NONE, None, NoUser))

(***************************************************************************)
(* Requests                                                                *)
(***************************************************************************)
IPs == {"10.0.0.1", "10.0.0.2"}

LoginRequest(ip_address, identifier, password) ==
    [email |-> "", user |-> NoUser, password |-> password, username |-> identifier,
     confirm_password |-> "", op |-> LOGIN, method |-> "POST", ip |-> ip_address]

SignupRequest(ip_address, username, email, password, confirm_password) ==
    [email |-> email, user |-> NoUser, password |-> password, username |-> username,
     confirm_password |-> confirm_password, op |-> SIGNUP, method |-> "POST",
     ip |-> ip_address]

\* a GET of the login or the signup page
PageRequest(op, ip_address) ==
    [email |-> "", user |-> NoUser, password |-> "", username |-> "",
     confirm_password |-> "", op |-> op, method |-> "GET", ip |-> ip_address]

\* a POST of the profile page (change_username) or of the account deletion by
\* the logged-in user; the new username travels in `username`
AccountRequest(op, user, username, password) ==
    [email |-> "", user |-> user, password |-> password, username |-> username,
     confirm_password |-> "", op |-> op, method |-> "POST", ip |-> ""]

NoRequest == [email |-> "", user |-> NoUser, password |-> "", username |-> "",
              confirm_password |-> "", op |-> "", method |-> "", ip |-> ""]

NoResponse == Response(0, MSG_NONE, None, NoUser)

\* the URL dispatch: one request against the database at time t
Dispatch(tbl, log, t, r) ==
    IF r.op = "profile" THEN profile_view(tbl, log, tbl[r.user], r.username, r.password)
    ELSE IF r.op = "delete_account"
    THEN delete_account_view(tbl, log, tbl[r.user], r.password)
    ELSE IF r.op = LOGIN /\ r.method = "GET" THEN login_page(tbl, log, t, r.ip)
    ELSE IF r.op = LOGIN THEN login_view(tbl, log, t, r.ip, r.username, r.password)
    ELSE IF r.method = "GET" THEN signup_page(tbl, log, t, r.ip)
    ELSE signup_view(tbl, log, t, r.ip,
                     [email |-> r.email, password |-> r.password,
                      username |-> r.username, confirm_password |-> r.confirm_password])

\* a request and what it leaves behind; an exception that leaves the view is
\* answered with status 500
Handle(tbl, log, t, r) ==
    LET res == Dispatch(tbl, log, t, r)
    IN [users |-> res.users,
        events |-> res.events.rows,
        resp |-> IF res.events.raised THEN Response(500, MSG_NONE, None, NoUser)
                 ELSE res.resp]

\* identifier and password of the login POSTs of the model: alice by email in
\* capitals with her password, alice by username in capitals with a wrong
\* password, bob right and wrong, an unknown name, an empty identifier
LoginInputs ==
    {<<"ALICE@EXAMPLE.COM", "AlicePass123!">>, <<"ALICE", "BobPass123!">>,
     <<"bob", "BobPass123!">>, <<"bob", "AlicePass123!">>,
     <<"nobody", "AlicePass123!">>, <<" ", "AlicePass123!">>}

\* the signup POSTs of the model: a valid new account, a password that is too short
SignupInputs ==
    {<<"carol", "carol@example.com", "StrongPass1!", "StrongPass1!">>,
     <<"weakpass", "weak@example.com", "Short1!", "Short1!">>}

(***************************************************************************)
(* The database at start: the accounts alice and bob, and the traffic the *)
(* site has already handled, replayed through the views.                  *)
(***************************************************************************)
InitialUsers ==
    create_user(create_user(<<>>, "alice", "alice@example.com", "AlicePass123!"),
                "bob", "bob@example.com", "BobPass123!")

\* a history is a sequence of [at |-> time, r |-> request], times ascending
RECURSIVE Replay(_, _, _, _)
Replay(tbl, log, script, i) ==
    IF i > Len(script) THEN [users |-> tbl, events |-> log]
    ELSE LET res == Handle(tbl, EventTable(log, TRUE, TRUE), script[i].at, script[i].r)
         IN Replay(res.users, res.events, script, i + 1)

At(t, requests) == [i \in DOMAIN requests |-> [r |-> requests[i], at |-> t]]

EndOf(script) == IF script = <<>> THEN 0 ELSE script[Len(script)].at

TestUserName == <<"testuser0", "testuser1", "testuser2", "testuser3", "testuser4",
                  "testuser5", "testuser6", "testuser7">>
TestUserEmail == <<"test0@example.com", "test1@example.com", "test2@example.com",
                   "test3@example.com", "test4@example.com", "test5@example.com",
                   "test6@example.com", "test7@example.com">>

WarmIP == "10.0.0.1"

\* a failures on alice followed by b failures on bob, from one address
WarmWrongPasswords(a, b) ==
    [i \in 1..(a + b) |-> IF i <= a THEN LoginRequest(WarmIP, "alice", "WrongPass0!")
                          ELSE LoginRequest(WarmIP, "bob", "WrongPass0!")]
\* k logins of alice with her password
WarmLogins(k) == [i \in 1..k |-> LoginRequest(WarmIP, "alice", "AlicePass123!")]
\* k logins with a name nobody has
WarmUnknown(k) == [i \in 1..k |-> LoginRequest(WarmIP, "nobody", "WrongPass0!")]
\* k signups of k new accounts
WarmSignups(k) ==
    [i \in 1..k |-> SignupRequest(WarmIP, TestUserName[i], TestUserEmail[i],
                                  "StrongPass1!", "StrongPass1!")]
\* k signups rejected by the form
WarmBadSignups(k) ==
    [i \in 1..k |-> SignupRequest(WarmIP, "weakpass", "weak@example.com",
                                  "Short1!", "Short1!")]

\* alice locked by five wrong passwords, then k more once the lock has run out
WarmRelock(k) ==
    At(0, WarmWrongPasswords(LOGIN_LOCK_THRESHOLD, 0))
    \o At(LOGIN_LOCK_DURATION, WarmWrongPasswords(k, 0))

\* two failures, and one window later three more and k POSTs on top, from one
\* address
WarmSpread(k) ==
    At(0, WarmWrongPasswords(2, 0))
    \o At(LOGIN_RATE_WINDOW, WarmWrongPasswords(0, 3 + k))

Histories ==
    {At(0, WarmWrongPasswords(a, b)) : a \in 0..MaxWarm, b \in 0..2}
    \cup {WarmSpread(k) : k \in 0..2}
    \cup {WarmRelock(k) : k \in 0..LOGIN_LOCK_THRESHOLD - 1}
    \cup {At(0, WarmLogins(k)) : k \in 1..MaxWarm + 1}
    \cup {At(0, WarmUnknown(k)) : k \in 1..MaxWarm}
    \cup {At(0, WarmSignups(k)) : k \in 1..MaxWarm}
    \cup {At(0, WarmBadSignups(k)) : k \in 1..MaxWarm}

(***************************************************************************)
(* State machine                                                           *)
(***************************************************************************)
\* the event table works
Up == [readable |-> TRUE, writable |-> TRUE]

\* the ways the event table fails: INSERT only, SELECT only, both (the table
\* is missing, as in test_signup_gracefully_handles_missing_audit_table)
Outages == {[readable |-> TRUE, writable |-> FALSE],
            [readable |-> FALSE, writable |-> TRUE],
            [readable |-> FALSE, writable |-> FALSE]}

Threads == 1..MaxThreads

\* a request not yet received: pc is the position in the view, user the
\* in-memory User object, reason and resp what the view has decided so far,
\* effects the database writes the request has made, in order
Idle == [resp |-> NoResponse, user |-> NoRow, reason |-> "", reset_time |-> None,
         r |-> NoRequest, pc |-> "idle", effects |-> <<>>]

Init ==
    /\ \E script \in Histories :
          LET db == Replay(InitialUsers, <<>>, script, 1)
          IN now = EndOf(script) /\ users = db.users /\ events = db.events
    /\ nreq = 0
    /\ req = NoRequest
    /\ resp = NoResponse
    /\ store = Up
    /\ threads = [th \in Threads |-> Idle]
    /\ key = ACCOUNT_EMAIL_ENCRYPTION_KEY

\* one request handled from its first line to its response
Serve(r) ==
    /\ nreq < MaxRequests
    /\ LET res == Handle(users, EventTable(events, store.readable, store.writable), now, r)
       IN /\ users' = res.users
          /\ events' = res.events
          /\ resp' = res.resp
    /\ req' = r
    /\ nreq' = nreq + 1
    /\ UNCHANGED <<now, store, threads, key>>

LoginPost ==
    \E ip \in IPs, in \in LoginInputs : Serve(LoginRequest(ip, in[1], in[2]))

SignupPost ==
    \E ip \in IPs, in \in SignupInputs :
        Serve(SignupRequest(ip, in[1], in[2], in[3], in[4]))

LoginGet == \E ip \in IPs : Serve(PageRequest(LOGIN, ip))

SignupGet == \E ip \in IPs : Serve(PageRequest(SIGNUP, ip))

\* the clock advances between requests, one login window at a time
Tick ==
    /\ now + LOGIN_RATE_WINDOW <= MaxTicks * LOGIN_RATE_WINDOW
    /\ now' = now + LOGIN_RATE_WINDOW
    /\ UNCHANGED <<users, events, nreq, req, resp, store, threads, key>>

Next == LoginPost \/ SignupPost \/ LoginGet \/ SignupGet \/ Tick

Spec == Init /\ [][Next]_vars

(***************************************************************************)
(* Logged-in users change their username or delete their account, between *)
(* the logins and signups of the others.                                   *)
(***************************************************************************)
\* signup POSTs the form rejects, one for each reason, and one it accepts with
\* a username in capitals and blanks around the email
SignupFormInputs ==
    {<<"a!", "carol@example.com", "StrongPass1!", "StrongPass1!">>,
     <<"ALICE", "carol@example.com", "StrongPass1!", "StrongPass1!">>,
     <<"carol", "ALICE@EXAMPLE.COM", "StrongPass1!", "StrongPass1!">>,
     <<"carol", "carol@example.com", "StrongPass1!", "AlicePass123!">>,
     <<"CAROL", " carol@example.com ", "StrongPass1!", "StrongPass1!">>}

SignupFormPost ==
    \E ip \in IPs, in \in SignupFormInputs :
        Serve(SignupRequest(ip, in[1], in[2], in[3], in[4]))

\* the accounts with a session: login(request, user) ran for them
LoggedIn ==
    {pk \in DOMAIN users :
        users[pk].pk # NoUser
        /\ \E i \in DOMAIN events : events[i].user = pk /\ events[i].successful}

ChangeUsername ==
    \E pk \in LoggedIn, new_username \in {"carol", "ALICE", "a!"},
       password \in {"AlicePass123!", "StrongPass1!", "WrongPass0!"} :
        Serve(AccountRequest("profile", pk, new_username, password))

DeleteAccount ==
    \E pk \in LoggedIn, password \in {"", "AlicePass123!", "StrongPass1!", "WrongPass0!"} :
        Serve(AccountRequest("delete_account", pk, "", password))

NextAccount ==
    LoginPost \/ SignupPost \/ SignupFormPost \/ ChangeUsername \/ DeleteAccount

SpecAccount == Init /\ [][NextAccount]_vars

(***************************************************************************)
(* The event table fails: every query on it raises DatabaseError from     *)
(* then on.  The clock stands still in this specification.                *)
(***************************************************************************)
Outage ==
    /\ store = Up
    /\ store' \in Outages
    /\ UNCHANGED <<now, users, events, nreq, req, resp, threads, key>>

NextOutage == Outage \/ LoginPost \/ SignupPost \/ LoginGet \/ SignupGet

SpecOutage == Init /\ [][NextOutage]_vars

(***************************************************************************)
(* The views statement by statement: requests in flight at once, each     *)
(* step one database query or save, the clock moving in between.          *)
(***************************************************************************)
\* the requests in flight: alice with a wrong and with her password from
\* either address, and one new signup
ConcRequests ==
    {LoginRequest(ip, "alice", pw) : ip \in IPs, pw \in {"WrongPass0!", "AlicePass123!"}}
    \cup {SignupRequest(WarmIP, "carol", "carol@example.com", "StrongPass1!", "StrongPass1!")}

ConcHistories ==
    {At(0, WarmWrongPasswords(a, 0)) : a \in 0..MaxWarm}
    \cup {At(0, WarmSignups(MaxWarm))}

\* the recorded history, and the time since: none, or just one window
InitConc ==
    /\ \E script \in ConcHistories, idle \in {0, LOGIN_RATE_WINDOW, SIGNUP_RATE_WINDOW} :
          LET db == Replay(InitialUsers, <<>>, script, 1)
          IN now = EndOf(script) + idle /\ users = db.users /\ events = db.events
    /\ nreq = 0
    /\ req = NoRequest
    /\ resp = NoResponse
    /\ store = Up
    /\ threads = [th \in Threads |-> Idle]
    /\ key = ACCOUNT_EMAIL_ENCRYPTION_KEY

Table == EventTable(events, store.readable, store.writable)

\* the page both views render when throttled
ThrottledPage(r, lockout_seconds) ==
    Response(200, IF r.op = LOGIN THEN MSG_THROTTLED ELSE MSG_SIGNUP_THROTTLED,
             lockout_seconds, NoUser)

\* lines 172-178 / 309-314: request r arrives at thread th, _is_rate_limited is
\* evaluated and a login form is validated; the profile page loads request.user
Arrive(th, r) ==
    /\ threads[th].pc = "idle"
    /\ \A other \in Threads : other < th => threads[other].pc # "idle"
    /\ LET limited == IF r.op = LOGIN
                      THEN login_is_ip_rate_limited(Table, now, r.ip)
                      ELSE r.op = SIGNUP /\ signup_is_ip_rate_limited(Table, now, r.ip)
           valid == r.op # LOGIN \/ LoginForm_is_valid(r.username, r.password)
       IN threads' = [threads EXCEPT ![th] =
              [@ EXCEPT !.r = r,
                        !.user = IF r.op = "profile" THEN users[r.user] ELSE NoRow,
                        !.pc = IF limited THEN "reset_time"
                               ELSE IF ~valid THEN "done"
                               ELSE IF r.op = SIGNUP THEN "clean_username"
                               ELSE IF r.op = "profile" THEN "clean_new_username"
                               ELSE "find_user",
                        !.resp = IF ~limited /\ ~valid
                                 THEN Response(200, MSG_ENTER, None, NoUser)
                                 ELSE NoResponse]]
    /\ UNCHANGED <<now, users, events, nreq, req, resp, store, key>>

Receive(th) == \E r \in ConcRequests : Arrive(th, r)

\* lines 182-187 / 320-324: _get_rate_limit_reset_time
ResetTime(th) ==
    /\ threads[th].pc = "reset_time"
    /\ LET r == threads[th].r
           reset_time ==
               IF r.op = LOGIN
               THEN _get_rate_limit_reset_time(Table, now, LOGIN, r.ip,
                                               LOGIN_RATE_WINDOW, {FALSE})
               ELSE _get_rate_limit_reset_time(Table, now, SIGNUP, r.ip,
                                               SIGNUP_RATE_WINDOW, BOOLEAN)
       IN threads' = [threads EXCEPT ![th] =
              [@ EXCEPT !.reset_time = reset_time,
                        !.pc = IF reset_time = None THEN "done" ELSE "countdown",
                        !.resp = IF reset_time = None THEN ThrottledPage(r, None)
                                 ELSE NoResponse]]
    /\ UNCHANGED <<now, users, events, nreq, req, resp, store, key>>

\* lines 188-192 / 325-329: timezone.now() is read again for the countdown
Countdown(th) ==
    /\ threads[th].pc = "countdown"
    /\ threads' = [threads EXCEPT ![th] =
           [@ EXCEPT !.pc = "done",
                     !.resp = ThrottledPage(threads[th].r,
                                            _lockout_seconds(threads[th].reset_time, now))]]
    /\ UNCHANGED <<now, users, events, nreq, req, resp, store, key>>

\* lines 197-232: form.find_user() reads the row; is_locked() and
\* check_password() look at the object in memory
FindUser(th) ==
    /\ threads[th].pc = "find_user"
    /\ LET r == threads[th].r
           pk == find_user(users, r.username, r.password)
           user == IF pk = NoUser THEN NoRow ELSE users[pk]
           locked == pk # NoUser /\ is_locked(user, now)
       IN threads' = [threads EXCEPT ![th] =
              [@ EXCEPT !.user = user,
                        !.pc = IF locked \/ pk = NoUser THEN "record"
                               ELSE IF ~check_password(user, r.password)
                               THEN "mark_login_failure"
                               ELSE "reset_login_failures",
                        !.reason = IF locked THEN "account_locked"
                                   ELSE IF pk = NoUser THEN "unknown_identifier"
                                   ELSE "",
                        !.resp = IF locked
                                 THEN login_account_locked(users, Table, now, r.ip,
                                          get_identifier(r.username), user).resp
                                 ELSE IF pk = NoUser
                                 THEN Response(200, MSG_INVALID, None, NoUser)
                                 ELSE NoResponse]]
    /\ UNCHANGED <<now, users, events, nreq, req, resp, store, key>>

\* line 236: user.mark_login_failure() increments the object and saves two fields
MarkFailure(th) ==
    /\ threads[th].pc = "mark_login_failure"
    /\ LET m == mark_login_failure(users, threads[th].user, now)
           locks == m.self.failed_login_attempts >= LOGIN_LOCK_THRESHOLD
       IN /\ users' = m.users
          /\ threads' = [threads EXCEPT ![th] =
                 [@ EXCEPT !.user = m.self,
                           !.pc = IF locks THEN "lock_for" ELSE "record",
                           !.reason = IF locks THEN "" ELSE "password_mismatch",
                           !.resp = IF locks THEN NoResponse
                                    ELSE Response(200, MSG_INVALID, None, NoUser),
                           !.effects = Append(@, "save")]]
    /\ UNCHANGED <<now, events, nreq, req, resp, store, key>>

\* line 242: user.lock_for(LOGIN_LOCK_DURATION) saves locked_until
LockFor(th) ==
    /\ threads[th].pc = "lock_for"
    /\ LET l == lock_for(users, threads[th].user, LOGIN_LOCK_DURATION, now)
       IN /\ users' = l.users
          /\ threads' = [threads EXCEPT ![th] =
                 [@ EXCEPT !.user = l.self,
                           !.pc = "clear",
                           !.effects = Append(@, "save")]]
    /\ UNCHANGED <<now, events, nreq, req, resp, store, key>>

\* lines 243-250 without the save: the counter is set to 0 on the object only
ClearCounter_unsaved(th) ==
    /\ threads[th].pc = "clear"
    /\ LET cleared == [threads[th].user EXCEPT !.failed_login_attempts = 0]
       IN /\ users' = users
          /\ threads' = [threads EXCEPT ![th] =
                 [@ EXCEPT !.user = cleared,
                           !.pc = "record",
                           !.reason = "account_locked",
                           !.resp = Response(200, MSG_LOCKED_NOW,
                                             max(1, cleared.locked_until - now), NoUser)]]
    /\ UNCHANGED <<now, events, nreq, req, resp, store, key>>

\* lines 243-250: the counter of the object is set to 0 and saved; countdown
ClearCounter(th) ==
    /\ threads[th].pc = "clear"
    /\ LET cleared == [threads[th].user EXCEPT !.failed_login_attempts = 0]
       IN /\ users' = save(users, cleared, {"failed_login_attempts"})
          /\ threads' = [threads EXCEPT ![th] =
                 [@ EXCEPT !.user = cleared,
                           !.pc = "record",
                           !.reason = "account_locked",
                           !.resp = Response(200, MSG_LOCKED_NOW,
                                             max(1, cleared.locked_until - now), NoUser),
                           !.effects = Append(@, "save")]]
    /\ UNCHANGED <<now, events, nreq, req, resp, store, key>>

\* lines 268-270: user.reset_login_failures() and login(request, user)
ResetFailures(th) ==
    /\ threads[th].pc = "reset_login_failures"
    /\ LET cleared == reset_login_failures(users, threads[th].user)
       IN /\ users' = cleared.users
          /\ threads' = [threads EXCEPT ![th] =
                 [@ EXCEPT !.user = cleared.self,
                           !.pc = "record",
                           !.resp = Response(302, MSG_NONE, None, cleared.self.pk),
                           !.effects = Append(@, "save")]]
    /\ UNCHANGED <<now, events, nreq, req, resp, store, key>>

\* the _record_event call that ends each branch of login_view and of signup_view
RecordEvent(th) ==
    /\ threads[th].pc = "record"
    /\ LET self == threads[th]
           username == IF self.r.op = LOGIN THEN get_identifier(self.r.username)
                       ELSE IF self.user.pk # NoUser THEN self.user.username
                       ELSE self.r.username
       IN events' = _record_event(Table, now, self.r.op, self.r.ip, username, self.user.pk,
                                  self.resp.session_user # NoUser, self.reason).rows
    /\ threads' = [threads EXCEPT ![th] =
           [@ EXCEPT !.pc = "done", !.effects = Append(@, "event")]]
    /\ UNCHANGED <<now, users, nreq, req, resp, store, key>>

\* the form of request th
Form(th) ==
    [email |-> threads[th].r.email, password |-> threads[th].r.password,
     username |-> threads[th].r.username,
     confirm_password |-> threads[th].r.confirm_password]

\* line 332, form.is_valid(): clean_username queries the table
CleanUsername(th) ==
    /\ threads[th].pc = "clean_username"
    /\ threads' = [threads EXCEPT ![th] =
           [@ EXCEPT !.pc = "clean_email",
                     !.reason = IF clean_username_ok(users, Form(th).username) THEN ""
                                ELSE "validation_error"]]
    /\ UNCHANGED <<now, users, events, nreq, req, resp, store, key>>

\* form.is_valid() continued: clean_email queries the table, clean() compares
\* the passwords
CleanEmail(th) ==
    /\ threads[th].pc = "clean_email"
    /\ LET valid == /\ threads[th].reason = ""
                    /\ clean_email_ok(users, Form(th).email)
                    /\ clean_ok(Form(th).password, Form(th).confirm_password)
       IN threads' = [threads EXCEPT ![th] =
              [@ EXCEPT !.pc = IF valid THEN "save" ELSE "record",
                        !.reason = IF valid THEN "" ELSE "validation_error",
                        !.resp = IF valid THEN NoResponse
                                 ELSE Response(200, MSG_FIELD_ERRORS, None, NoUser)]]
    /\ UNCHANGED <<now, users, events, nreq, req, resp, store, key>>

\* lines 334-337: form.save() inserts the row, login(request, user); an
\* IntegrityError leaves the view (status 500)
FormSave(th) ==
    /\ threads[th].pc = "save"
    /\ LET tbl == SignupForm_save(users, Form(th))
           user == tbl[Len(tbl)]
       IN IF IntegrityError(users, user)
          THEN /\ users' = users
               /\ threads' = [threads EXCEPT ![th] =
                      [@ EXCEPT !.pc = "done",
                                !.resp = Response(500, MSG_NONE, None, NoUser)]]
          ELSE /\ users' = tbl
               /\ threads' = [threads EXCEPT ![th] =
                      [@ EXCEPT !.user = user,
                                !.pc = "record",
                                !.resp = Response(302, MSG_NONE, None, user.pk),
                                !.effects = Append(@, "save")]]
    /\ UNCHANGED <<now, events, nreq, req, resp, store, key>>

\* the next statement of request th
Step(th) ==
    \/ Receive(th) \/ ResetTime(th) \/ Countdown(th) \/ FindUser(th)
    \/ MarkFailure(th) \/ LockFor(th) \/ ClearCounter(th)
    \/ ResetFailures(th) \/ RecordEvent(th)
    \/ CleanUsername(th) \/ CleanEmail(th) \/ FormSave(th)

\* requests in flight at once, interleaved statement by statement, at one
\* reading of the clock
NextConc == \E th \in Threads : Step(th)

SpecConc == InitConc /\ [][NextConc]_vars

\* a second passes while a request is in flight
Second ==
    /\ now % LOGIN_RATE_WINDOW < MaxDrift
    /\ now' = now + 1
    /\ UNCHANGED <<users, events, nreq, req, resp, store, threads, key>>

\* one request statement by statement while the clock moves
NextDrift == Step(1) \/ Second

SpecDrift == InitConc /\ [][NextDrift]_vars

(***************************************************************************)
(* Logins on one account in flight at once, statement by statement, from   *)
(* an address that has not failed before.                                  *)
(***************************************************************************)
LoginThreads == 1..MaxLogins

ConcLogins ==
    {LoginRequest("10.0.0.2", "alice", pw) : pw \in {"WrongPass0!", "AlicePass123!"}}

\* alice has failed 0 to 5 times (5: she is locked)
InitLogins ==
    /\ \E a \in 0..LOGIN_LOCK_THRESHOLD :
          LET db == Replay(InitialUsers, <<>>, At(0, WarmWrongPasswords(a, 0)), 1)
          IN now = 0 /\ users = db.users /\ events = db.events
    /\ nreq = 0
    /\ req = NoRequest
    /\ resp = NoResponse
    /\ store = Up
    /\ threads = [th \in Threads |-> Idle]
    /\ key = ACCOUNT_EMAIL_ENCRYPTION_KEY

ReceiveLogin(th) == \E r \in ConcLogins : Arrive(th, r)

NextLogins ==
    \E th \in LoginThreads :
        \/ ReceiveLogin(th) \/ FindUser(th) \/ MarkFailure(th) \/ LockFor(th)
        \/ ClearCounter(th) \/ ResetFailures(th) \/ RecordEvent(th)

SpecLogins == InitLogins /\ [][NextLogins]_vars

(***************************************************************************)
(* Signups and username changes in flight at once, each step one query or *)
(* save of the form or the view.  bob is logged in.                        *)
(***************************************************************************)
SignupThreads == 1..MaxSignups

ConcSignups ==
    {SignupRequest(WarmIP, "carol", "carol@example.com", "StrongPass1!", "StrongPass1!"),
     SignupRequest(WarmIP, "CAROL", "nobody@example.com", "StrongPass1!", "StrongPass1!"),
     SignupRequest(WarmIP, "nobody", "CAROL@EXAMPLE.COM", "StrongPass1!", "StrongPass1!"),
     SignupRequest(WarmIP, "alice", "nobody@example.com", "StrongPass1!", "StrongPass1!"),
     AccountRequest("profile", 2, "CAROL", "BobPass123!"),
     AccountRequest("profile", 2, "carol", "WrongPass0!")}

InitSignups ==
    /\ LET db == Replay(InitialUsers, <<>>,
                        At(0, <<LoginRequest(WarmIP, "bob", "BobPass123!")>>), 1)
       IN now = 0 /\ users = db.users /\ events = db.events
    /\ nreq = 0
    /\ req = NoRequest
    /\ resp = NoResponse
    /\ store = Up
    /\ threads = [th \in Threads |-> Idle]
    /\ key = ACCOUNT_EMAIL_ENCRYPTION_KEY

ReceiveSignup(th) == \E r \in ConcSignups : Arrive(th, r)

\* line 412, username_form.is_valid(): clean_new_username queries the table,
\* clean_password checks the password of request.user
CleanNewUsername(th) ==
    /\ threads[th].pc = "clean_new_username"
    /\ LET self == threads[th]
           valid == ChangeUsernameForm_is_valid(users, self.user, self.r.username,
                                                self.r.password)
       IN threads' = [threads EXCEPT ![th] =
              [@ EXCEPT !.pc = IF valid THEN "save_username" ELSE "done",
                        !.resp = IF valid THEN NoResponse
                                 ELSE Response(200, MSG_FIELD_ERRORS, None, NoUser)]]
    /\ UNCHANGED <<now, users, events, nreq, req, resp, store, key>>

\* lines 413-416: request.user.save(update_fields=['username']); an
\* IntegrityError leaves the view (status 500)
SaveUsername(th) ==
    /\ threads[th].pc = "save_username"
    /\ LET user == [threads[th].user EXCEPT !.username = strip(threads[th].r.username)]
       IN IF IntegrityError(users, [users[user.pk] EXCEPT !.username = user.username])
          THEN /\ users' = users
               /\ threads' = [threads EXCEPT ![th] =
                      [@ EXCEPT !.pc = "done",
                                !.resp = Response(500, MSG_NONE, None, NoUser)]]
          ELSE /\ users' = save(users, user, {"username"})
               /\ threads' = [threads EXCEPT ![th] =
                      [@ EXCEPT !.user = user,
                                !.pc = "done",
                                !.resp = Response(200, MSG_USERNAME_CHANGED, None, NoUser),
                                !.effects = Append(@, "save")]]
    /\ UNCHANGED <<now, events, nreq, req, resp, store, key>>

NextSignups ==
    \E th \in SignupThreads :
        \/ ReceiveSignup(th) \/ CleanUsername(th) \/ CleanEmail(th) \/ FormSave(th)
        \/ RecordEvent(th) \/ CleanNewUsername(th) \/ SaveUsername(th)

SpecSignups == InitSignups /\ [][NextSignups]_vars

(***************************************************************************)
(* Properties.  The vocabulary below restates the specification's terms   *)
(* on the state, independently of the operators that model the views.     *)
(* In an action formula the unprimed state is the database the request    *)
(* met, req' the request and resp' the response.                           *)
(***************************************************************************)
IsLoginPost == nreq' = nreq + 1 /\ req'.op = LOGIN /\ req'.method = "POST"
IsSignupPost == nreq' = nreq + 1 /\ req'.op = SIGNUP /\ req'.method = "POST"

\* events of one kind from one address with createdAt within the last `window` seconds
EventsWithin(kind, ip, window) ==
    {i \in DOMAIN events : /\ events[i].event_type = kind
                           /\ events[i].ip_address = ip
                           /\ now - events[i].created_at <= window}
FailedLoginsWithin15Min(ip) ==
    Cardinality({i \in EventsWithin(LOGIN, ip, 900) : ~events[i].successful})
SuccessfulLoginsWithin15Min(ip) ==
    Cardinality({i \in EventsWithin(LOGIN, ip, 900) : events[i].successful})
SignupsWithinHour(ip) == Cardinality(EventsWithin(SIGNUP, ip, 3600))

\* the accounts a submitted identifier names: by username ignoring case, or by email
AccountsNamed(identifier) ==
    {pk \in DOMAIN users : \/ lower(users[pk].username) = lower(strip(identifier))
                           \/ lower(users[pk].email) = lower(strip(identifier))}
Names(identifier, pk) == pk \in AccountsNamed(identifier)

Locked(pk) == users[pk].locked_until # None /\ users[pk].locked_until > now
PasswordOf(pk, password) == users[pk].password = <<"argon2", password>>
WellFormed(r) == strip(r.username) # "" /\ strip(r.password) # ""

Lockout(row) == <<row.failed_login_attempts, row.locked_until, row.last_failed_login_at>>

AnsweredThrottled(r) == r.alert_message = MSG_THROTTLED /\ r.status = 200
AnsweredLocked(r) == r.alert_message \in {MSG_LOCKED, MSG_LOCKED_NOW} /\ r.status = 200
Authenticates(r) == r.session_user # NoUser

\* a login POST that passes the throttle check and names the account pk
LoginAttemptOn(pk) ==
    /\ IsLoginPost
    /\ FailedLoginsWithin15Min(req'.ip) < 5
    /\ WellFormed(req')
    /\ Names(req'.username, pk)

C2_LockAtThreshold ==
    [][\A pk \in DOMAIN users :
        (LoginAttemptOn(pk) /\ ~Locked(pk) /\ ~PasswordOf(pk, req'.password))
        => /\ users[pk].failed_login_attempts = 4
              => /\ users'[pk].failed_login_attempts = 0
                 /\ users'[pk].locked_until = now + 3600
                 /\ AnsweredLocked(resp')
           /\ users[pk].failed_login_attempts < 4
              => /\ users'[pk].failed_login_attempts = users[pk].failed_login_attempts + 1
                 /\ users'[pk].locked_until = users[pk].locked_until
                 /\ ~AnsweredLocked(resp')]_vars

\* the fifth wrong password has just locked the account
C2_Witness ==
    /\ nreq > 0 /\ req.op = LOGIN
    /\ resp.alert_message = MSG_LOCKED_NOW
    /\ \E pk \in AccountsNamed(req.username) :
          /\ ~PasswordOf(pk, req.password)
          /\ users[pk].failed_login_attempts = 0
          /\ users[pk].locked_until = now + 3600

\* C3: a login POST that is not throttled and names a locked account is answered
\* "locked" and logs nobody in, whatever the password and the address.
C3_LockedStaysOut ==
    [][\A pk \in DOMAIN users :
        (LoginAttemptOn(pk) /\ Locked(pk))
        => AnsweredLocked(resp') /\ ~Authenticates(resp')]_vars

\* the right password, from an address with no earlier login event, answered "locked"
C3_Witness ==
    /\ nreq > 0 /\ req.op = LOGIN
    /\ resp.alert_message = MSG_LOCKED
    /\ \E pk \in AccountsNamed(req.username) : PasswordOf(pk, req.password) /\ Locked(pk)
    /\ \A i \in 1..(Len(events) - 1) : events[i].ip_address # req.ip

\* C4: a login POST leaves the lockout fields of every account it does not name
\* unchanged.
C4_OtherAccountsUntouched ==
    [][IsLoginPost
        => \A pk \in DOMAIN users :
              ~Names(req'.username, pk) => Lockout(users'[pk]) = Lockout(users[pk])]_vars

\* one account has just been locked while another, attempted from the same address,
\* still has its own failures and no lock
C4_Witness ==
    /\ nreq > 0 /\ req.op = LOGIN
    /\ resp.alert_message = MSG_LOCKED_NOW
    /\ \E a \in AccountsNamed(req.username), b \in DOMAIN users :
          /\ a # b
          /\ Locked(a)
          /\ users[b].failed_login_attempts > 0 /\ users[b].locked_until = None
          /\ \E i \in DOMAIN events : events[i].user = b /\ events[i].ip_address = req.ip

\* C5: a login POST from an address with fewer than 5 failed login events in the
\* last 15 minutes is not throttled, however many successful ones there are.
C5_SuccessesDoNotCount ==
    [][(IsLoginPost /\ FailedLoginsWithin15Min(req'.ip) < 5)
        => ~AnsweredThrottled(resp')]_vars

\* a login that succeeded after six successful logins from the same address
C5_Witness ==
    /\ nreq > 0 /\ req.op = LOGIN
    /\ Authenticates(resp)
    /\ SuccessfulLoginsWithin15Min(req.ip) >= 7

\* C6: a signup POST from an address with at least 5 signup events of any outcome
\* in the last hour is rejected as throttled and creates no account.
C6_SignupThrottleCountsAll ==
    [][(IsSignupPost /\ SignupsWithinHour(req'.ip) >= 5)
        => /\ resp'.alert_message = MSG_SIGNUP_THROTTLED
           /\ ~Authenticates(resp')
           /\ users' = users]_vars

\* a valid signup rejected as throttled after five successful signups
C6_Witness ==
    /\ nreq > 0 /\ req.op = SIGNUP
    /\ resp.alert_message = MSG_SIGNUP_THROTTLED
    /\ req.username = "carol" /\ req.password = "StrongPass1!"
    /\ AccountsNamed("carol") = {}
    /\ Cardinality({i \in EventsWithin(SIGNUP, req.ip, 3600) : events[i].successful}) >= 5

\* C7: a login POST with the right password that is neither throttled nor aimed
\* at a locked account logs the user in and leaves failedAttempts = 0 and
\* lockedUntil and lastFailedAt absent.
C7_SuccessResets ==
    [][\A pk \in DOMAIN users :
        (LoginAttemptOn(pk) /\ ~Locked(pk) /\ PasswordOf(pk, req'.password))
        => /\ resp'.session_user = pk
           /\ resp'.status = 302
           /\ Lockout(users'[pk]) = <<0, None, None>>]_vars

\* a successful login of an account that had three wrong passwords before
C7_Witness ==
    /\ nreq > 0 /\ req.op = LOGIN
    /\ \E pk \in AccountsNamed(req.username) :
          /\ resp.session_user = pk
          /\ Lockout(users[pk]) = <<0, None, None>>
          /\ Cardinality({i \in 1..(Len(events) - 1) :
                            events[i].user = pk /\ events[i].reason = "password_mismatch"}) = 3

\* C8: a login POST that is not throttled and names an account is answered
\* "locked" exactly when lockedUntil is present and strictly later than now; when
\* lockedUntil is present but not later than now, the right password logs in.
C8_LazyExpiry ==
    [][\A pk \in DOMAIN users :
        LoginAttemptOn(pk)
        => /\ (resp'.alert_message = MSG_LOCKED)
                <=> (users[pk].locked_until # None /\ users[pk].locked_until > now)
           /\ (/\ users[pk].locked_until # None
               /\ users[pk].locked_until <= now
               /\ PasswordOf(pk, req'.password))
              => resp'.session_user = pk]_vars

\* a login that succeeded at the very instant a lock set earlier ran out
C8_Witness ==
    /\ nreq > 0 /\ req.op = LOGIN
    /\ \E pk \in AccountsNamed(req.username) :
          /\ resp.session_user = pk
          /\ \E i \in 1..(Len(events) - 1) :
                /\ events[i].user = pk
                /\ events[i].reason = "account_locked"
                /\ events[i].created_at + 3600 = now

\* C9: every login POST and every signup POST appends exactly one event.
C9_OneEventPerPost ==
    [][(IsLoginPost \/ IsSignupPost) => Len(events') = Len(events) + 1]_vars

\* C10: a POST rejected because the address is rate limited appends an event with
\* successful = false and reason ip_rate_limited.
C10_ThrottledEventRecorded ==
    [][((IsLoginPost \/ IsSignupPost)
        /\ resp'.alert_message \in {MSG_THROTTLED, MSG_SIGNUP_THROTTLED})
        => /\ Len(events') = Len(events) + 1
           /\ ~events'[Len(events')].successful
           /\ events'[Len(events')].reason = "ip_rate_limited"]_vars

\* C13: failedAttempts of an account decreases only in a login POST on that
\* account that either logs it in or locks it by the threshold transition; no
\* signup, throttled or locked attempt, unknown identifier, page GET or passing
\* of time lowers it.
C13_CounterLoweredOnlyBySuccessOrLock ==
    [][\A pk \in DOMAIN users :
        users'[pk].failed_login_attempts < users[pk].failed_login_attempts
        => /\ IsLoginPost
           /\ Names(req'.username, pk)
           /\ users'[pk].failed_login_attempts = 0
           /\ \/ resp'.session_user = pk
              \/ /\ users[pk].failed_login_attempts = 4
                 /\ resp'.alert_message = MSG_LOCKED_NOW
                 /\ users'[pk].locked_until = now + 3600]_vars

\* a successful login has just cleared a counter that earlier failures had raised
C13_Witness ==
    /\ nreq > 0 /\ req.op = LOGIN /\ req.method = "POST"
    /\ Authenticates(resp)
    /\ users[resp.session_user].failed_login_attempts = 0
    /\ \E i \in DOMAIN events : /\ events[i].user = resp.session_user
                                /\ events[i].reason = "password_mismatch"

\* the matching events of the limiter, as the specification counts them
Matching(kind, ip, window, successFilter) ==
    {i \in DOMAIN events : /\ events[i].event_type = kind
                           /\ events[i].ip_address = ip
                           /\ events[i].created_at >= now - window
                           /\ successFilter # "any"
                              => events[i].successful = (successFilter = "successful")}

Accepted(successFilter) ==
    CASE successFilter = "any" -> BOOLEAN
      [] successFilter = "failed" -> {FALSE}
      [] successFilter = "successful" -> {TRUE}

\* window, limit and success filter of the calls checked: the login policy, the
\* signup policy, and two more that use the other filter and lower limits
LimiterCalls ==
    {<<900, 5, "failed">>, <<3600, 5, "any">>, <<900, 1, "successful">>,
     <<3600, 3, "failed">>}

\* C17: isLimited(kind, ip, window, limit, successFilter) is true exactly when at
\* least `limit` events have that kind, that address, createdAt >= now - window
\* (an event exactly one window old counts) and, with a filter, that success value.
C17_IsLimitedExact ==
    \A kind \in {LOGIN, SIGNUP}, ip \in IPs, call \in LimiterCalls :
        _is_rate_limited(EventTable(events, TRUE, TRUE), now, kind, ip, call[1], call[2],
                         Accepted(call[3]))
        <=> Cardinality(Matching(kind, ip, call[1], call[3])) >= call[2]

\* a login is answered "throttled" only because failures that are exactly 15
\* minutes old still count (the countdown shows its minimum): fewer than five
\* are younger
C17_Witness ==
    /\ nreq > 0 /\ req.op = LOGIN
    /\ AnsweredThrottled(resp)
    /\ resp.lockout_seconds = 1
    /\ \E i \in DOMAIN events :
          events[i].ip_address = req.ip /\ events[i].created_at = now - 900
    /\ Cardinality({i \in DOMAIN events : /\ events[i].event_type = LOGIN
                                          /\ events[i].ip_address = req.ip
                                          /\ ~events[i].successful
                                          /\ events[i].created_at > now - 900}) < 5

Max1(n) == IF n < 1 THEN 1 ELSE n

\* C19: a "locked" login response carries secondsRemaining = max(1, lockedUntil - now),
\* between 1 and 3600; a response that is neither throttled nor locked carries none.
C19_LockedCountdown ==
    [][nreq' = nreq + 1
        => /\ (IsLoginPost /\ AnsweredLocked(resp'))
              => \E pk \in AccountsNamed(req'.username) :
                    /\ users'[pk].locked_until # None
                    /\ resp'.lockout_seconds = Max1(users'[pk].locked_until - now)
                    /\ resp'.lockout_seconds >= 1
                    /\ resp'.lockout_seconds <= 3600
           /\ (/\ ~AnsweredLocked(resp')
               /\ resp'.alert_message \notin {MSG_THROTTLED, MSG_SIGNUP_THROTTLED})
              => resp'.lockout_seconds = None]_vars

\* an attempt on an account that was locked 15 minutes earlier: 45 minutes remain
C19_Witness ==
    /\ nreq > 0 /\ req.op = LOGIN
    /\ resp.alert_message = MSG_LOCKED
    /\ resp.lockout_seconds = 2700

\* C20: resetTime(kind, ip, window, successFilter) is the createdAt of the oldest
\* matching event inside the window plus the window when the address is limited,
\* and nothing when the address is not limited.
C20_ResetTimeOnlyWhenLimited ==
    \A ip \in IPs :
        LET m == Matching(LOGIN, ip, 900, "failed")
            resetTime == _get_rate_limit_reset_time(EventTable(events, TRUE, TRUE), now,
                                                    LOGIN, ip, 900, {FALSE})
        IN /\ Cardinality(m) >= 5
              => \E i \in m : /\ \A j \in m : events[i].created_at <= events[j].created_at
                              /\ resetTime = events[i].created_at + 900
           /\ Cardinality(m) < 5 => resetTime = None

\* a request handled while INSERT on the event table fails and SELECT works
WriteFailed == nreq' = nreq + 1 /\ store.readable /\ ~store.writable
\* a request handled while SELECT on the event table fails
QueryFailed == nreq' = nreq + 1 /\ ~store.readable

\* what the same request would have got from the same database with the event
\* table holding `rows` and working
Otherwise(rows) == Handle(users, EventTable(rows, TRUE, TRUE), now, req')

\* C15: when the write of the audit event fails, the login or signup attempt
\* gives the response and leaves the accounts it would have with the write
\* succeeding, and no error reaches the caller (no status 500); only the event
\* is missing.
C15_AuditFailureSwallowed ==
    [][WriteFailed
        => /\ resp' = Otherwise(events).resp
           /\ users' = Otherwise(events).users
           /\ resp'.status \in {200, 302}
           /\ events' = events]_vars

\* a login or signup went through although its event could not be written
C15_Witness ==
    /\ nreq > 0 /\ req.method = "POST"
    /\ store.readable /\ ~store.writable
    /\ Authenticates(resp)
    /\ \A i \in DOMAIN events : events[i].user # resp.session_user \/ ~events[i].successful

\* C16: when the query that counts events fails, the request is not throttled
\* and is handled as from an address without events: same response, same
\* accounts, and the same event appended (when the write works).
C16_LimiterFailsOpen ==
    [][QueryFailed
        => /\ resp'.alert_message \notin {MSG_THROTTLED, MSG_SIGNUP_THROTTLED}
           /\ resp' = Otherwise(<<>>).resp
           /\ users' = Otherwise(<<>>).users
           /\ store.writable => events' = events \o Otherwise(<<>>).events]_vars

\* a login from an address with five recent failures went through while the
\* event table could not be read
C16_Witness ==
    /\ nreq > 0 /\ req.op = LOGIN /\ req.method = "POST"
    /\ ~store.readable
    /\ FailedLoginsWithin15Min(req.ip) >= 5
    /\ Authenticates(resp)

\* wrong-password attempts on the account that have run to their end
WrongPasswordAttemptsCompleted(pk) ==
    Cardinality({i \in DOMAIN events : /\ events[i].event_type = LOGIN
                                      /\ events[i].user = pk
                                      /\ ~events[i].successful})
\* nobody has logged in to the account and nobody is about to
NoSuccessfulLogin(pk) ==
    /\ \A i \in DOMAIN events : events[i].user = pk => ~events[i].successful
    /\ \A th \in Threads : ~PasswordOf(pk, threads[th].r.password)

\* C11: with concurrent wrong passwords on one unlocked account and no
\* successful login in between, the account is locked at the latest when the
\* sixth wrong-password attempt has completed, in every interleaving.
C11_LockedBySixthFailure ==
    \A pk \in DOMAIN users :
        (NoSuccessfulLogin(pk) /\ WrongPasswordAttemptsCompleted(pk) >= 6)
        => users[pk].locked_until # None

\* the request still holds the User object as find_user() read it
AsRead(th) ==
    \/ threads[th].pc \in {"mark_login_failure", "reset_login_failures"}
    \/ threads[th].pc = "record" /\ threads[th].effects = <<>>

\* C12: locking and the counter reset are one atomic step: no request reads an
\* account with failedAttempts at or above the threshold, or with lockedUntil
\* stored while failedAttempts is not 0.
C12_ThresholdTransitionAtomic ==
    \A th \in Threads :
        (AsRead(th) /\ threads[th].user.pk # NoUser)
        => /\ threads[th].user.failed_login_attempts < 5
           /\ threads[th].user.locked_until # None
              => threads[th].user.failed_login_attempts = 0

Count(effects, kind) == Cardinality({i \in DOMAIN effects : effects[i] = kind})

\* C14: a login attempt writes the user's lockout state at most once and
\* appends exactly one audit event, and the write comes before the event
\* (stated for the attempts that are not throttled; the throttled ones are C10).
C14_OneWriteThenOneEvent ==
    \A th \in Threads :
        (threads[th].r.op = LOGIN /\ threads[th].resp.alert_message # MSG_THROTTLED)
        => LET effects == threads[th].effects
           IN /\ Count(effects, "save") <= 1
              /\ threads[th].pc = "done" => Count(effects, "event") = 1
              /\ \A i, j \in DOMAIN effects :
                    (effects[i] = "save" /\ effects[j] = "event") => i < j

\* C18: a throttled login or signup response carries secondsRemaining, and
\* 1 <= secondsRemaining <= window (900 for login, 3600 for signup), also when
\* time passes between the limit check and the computation of the reset time.
C18_ThrottledCountdownPresent ==
    \A th \in Threads :
        LET r == threads[th].resp
        IN /\ r.alert_message = MSG_THROTTLED
              => r.lockout_seconds # None /\ r.lockout_seconds >= 1
                 /\ r.lockout_seconds <= 900
           /\ r.alert_message = MSG_SIGNUP_THROTTLED
              => r.lockout_seconds # None /\ r.lockout_seconds >= 1
                 /\ r.lockout_seconds <= 3600

\* the last event of the log
LastEvent(log) == log[Len(log)]

\* a wrong password for an account in the state the request met: the account is
\* not locked and one more failure leaves it below the threshold
WrongPasswordBelowThreshold(pk, password) ==
    /\ ~Locked(pk)
    /\ ~PasswordOf(pk, password)
    /\ users[pk].failed_login_attempts + 1 < 5

\* what the caller can observe of a response
Observable(r) == <<r.status, r.alert_message, r.lockout_seconds, r.session_user>>

\* C21: a login POST (not throttled) whose identifier matches no account is
\* answered "invalid credentials" without countdown, exactly as the same address
\* would be answered for a wrong password on any existing, unlocked account below
\* the lock threshold; it appends one event with reason unknown_identifier, no
\* user and successful = false.
C21_UnknownLooksLikeWrongPassword ==
    [][(/\ IsLoginPost
        /\ FailedLoginsWithin15Min(req'.ip) < 5
        /\ WellFormed(req')
        /\ AccountsNamed(req'.username) = {})
        => /\ resp'.alert_message = MSG_INVALID
           /\ resp'.lockout_seconds = None
           /\ ~Authenticates(resp')
           /\ \A pk \in DOMAIN users, password \in {"WrongPass0!", "AlicePass123!", "BobPass123!"} :
                 WrongPasswordBelowThreshold(pk, password)
                 => Observable(Handle(users, EventTable(events, TRUE, TRUE), now,
                                      LoginRequest(req'.ip, users[pk].username, password)).resp)
                    = Observable(resp')
           /\ Len(events') = Len(events) + 1
           /\ LastEvent(events').reason = "unknown_identifier"
           /\ LastEvent(events').user = NoUser
           /\ ~LastEvent(events').successful
           /\ users' = users]_vars

\* an unknown name was answered "invalid credentials" while an account with
\* failures of its own, unlocked and below the threshold, exists
C21_Witness ==
    /\ nreq > 0 /\ req.op = LOGIN /\ req.method = "POST"
    /\ AccountsNamed(req.username) = {}
    /\ resp.alert_message = MSG_INVALID
    /\ LastEvent(events).reason = "unknown_identifier"
    /\ \E pk \in DOMAIN users :
          users[pk].failed_login_attempts \in 1..3 /\ ~Locked(pk)

\* C22: the event of a wrong-password attempt (not throttled, account not
\* locked) has successful = false, and its reason is account_locked exactly when
\* the attempt brought failedAttempts to the threshold and locked the account;
\* otherwise it is password_mismatch.
C22_WrongPasswordReason ==
    [][\A pk \in DOMAIN users :
        (LoginAttemptOn(pk) /\ ~Locked(pk) /\ ~PasswordOf(pk, req'.password))
        => /\ Len(events') = Len(events) + 1
           /\ LastEvent(events').user = pk
           /\ ~LastEvent(events').successful
           /\ LastEvent(events').reason \in {"account_locked", "password_mismatch"}
           /\ LastEvent(events').reason = "account_locked"
              <=> /\ users[pk].failed_login_attempts + 1 >= 5
                  /\ users'[pk].locked_until = now + 3600]_vars

\* the fifth wrong password locked the account and was recorded as account_locked,
\* after four recorded as password_mismatch
C22_Witness ==
    /\ nreq > 0 /\ req.op = LOGIN /\ req.method = "POST"
    /\ resp.alert_message = MSG_LOCKED_NOW
    /\ LastEvent(events).reason = "account_locked"
    /\ Cardinality({i \in DOMAIN events : /\ events[i].user = LastEvent(events).user
                                          /\ events[i].reason = "password_mismatch"}) = 4

\* C23: a signup POST, whether throttled, rejected by the form or successful,
\* leaves failedAttempts, lockedUntil and lastFailedAt of every existing account
\* as they were; an account it creates starts with failedAttempts = 0, no
\* lockedUntil, no lastFailedAt, and is not locked.
C23_SignupLeavesLockoutAlone ==
    [][IsSignupPost
        => /\ \A pk \in DOMAIN users :
                 pk \in DOMAIN users' /\ Lockout(users'[pk]) = Lockout(users[pk])
           /\ \A pk \in DOMAIN users' \ DOMAIN users :
                 /\ Lockout(users'[pk]) = <<0, None, None>>
                 /\ ~(users'[pk].locked_until # None /\ users'[pk].locked_until > now)]_vars

\* an account was created while another account is locked
C23_Witness ==
    /\ nreq > 0 /\ req.op = SIGNUP /\ req.method = "POST"
    /\ Authenticates(resp)
    /\ Lockout(users[resp.session_user]) = <<0, None, None>>
    /\ \E pk \in DOMAIN users : Locked(pk)

\* str.upper() on the addresses of the model
upper(s) ==
    CASE s \in {"alice@example.com", "ALICE@example.com"} -> "ALICE@EXAMPLE.COM"
      [] s = "bob@example.com" -> "BOB@EXAMPLE.COM"
      [] s = "carol@example.com" -> "CAROL@EXAMPLE.COM"
      [] OTHER -> s

\* the address with a blank before and after it
Padded(s) ==
    CASE s = "alice@example.com" -> " alice@example.com "
      [] s = "bob@example.com" -> " bob@example.com "
      [] s = "carol@example.com" -> " carol@example.com "
      [] OTHER -> s

Emails == {"alice@example.com", "ALICE@example.com", "bob@example.com", "carol@example.com"}

LockExpired(pk) == users[pk].locked_until # None /\ users[pk].locked_until <= now

\* wrong-password attempts on the account answered since its lock ran out
WrongPasswordsSinceExpiry(pk) ==
    Cardinality({i \in DOMAIN events : /\ events[i].event_type = LOGIN
                                      /\ events[i].user = pk
                                      /\ events[i].reason = "password_mismatch"
                                      /\ events[i].created_at >= users[pk].locked_until})

\* C30: after a lock has expired, with no successful login in between and
\* attempts handled one at a time, the first four further wrong passwords are
\* answered "invalid credentials" and leave the account unlocked, and the fifth
\* locks it again for 60 minutes.
C30_CleanCounterAfterExpiry ==
    [][\A pk \in DOMAIN users :
        (LoginAttemptOn(pk) /\ LockExpired(pk) /\ ~PasswordOf(pk, req'.password))
        => /\ WrongPasswordsSinceExpiry(pk) <= 4
           /\ WrongPasswordsSinceExpiry(pk) < 4
              => /\ resp'.alert_message = MSG_INVALID
                 /\ users'[pk].locked_until = users[pk].locked_until
           /\ WrongPasswordsSinceExpiry(pk) = 4
              => /\ resp'.alert_message = MSG_LOCKED_NOW
                 /\ users'[pk].locked_until = now + 3600]_vars

\* the account, locked once before, has just been locked again by the fifth
\* wrong password since that lock ran out
C30_Witness ==
    /\ nreq > 0 /\ req.op = LOGIN /\ req.method = "POST"
    /\ resp.alert_message = MSG_LOCKED_NOW
    /\ \E pk \in AccountsNamed(req.username) :
          /\ users[pk].locked_until = now + 3600
          /\ \E i \in 1..(Len(events) - 1) :
                /\ events[i].user = pk
                /\ events[i].reason = "account_locked"
                /\ events[i].created_at + 3600 <= now
                /\ Cardinality({j \in (i + 1)..(Len(events) - 1) :
                                   /\ events[j].user = pk
                                   /\ events[j].reason = "password_mismatch"}) = 4

(***************************************************************************)
(* Stored emails read back (view_accounts.py) while the stored data or    *)
(* the key configuration is damaged.                                       *)
(***************************************************************************)
\* nothing read yet
NotRead == [value |-> "", raised |-> ""]

\* settings the process can find instead of the key the data was written with:
\* another valid key, no key, text that is not base64, base64 of fewer bytes
Misconfigured == {"key-B", "", "not-base64", "c2hvcnQ="}

InitEmail ==
    /\ now = 0
    /\ users = InitialUsers
    /\ events = <<>>
    /\ nreq = 0
    /\ req = NoRequest
    /\ resp = NotRead
    /\ store = Up
    /\ threads = [th \in Threads |-> Idle]
    /\ key = ACCOUNT_EMAIL_ENCRYPTION_KEY

\* the process is started with another value of the setting
Rekey ==
    /\ key = ACCOUNT_EMAIL_ENCRYPTION_KEY
    /\ key' \in Misconfigured
    /\ UNCHANGED <<now, users, events, nreq, req, resp, store, threads>>

\* the stored ciphertext of one account is damaged: a byte changed (the tag no
\* longer verifies), cut down to fewer than 13 bytes, or set to NULL
Corrupt ==
    /\ \E pk \in DOMAIN users :
          /\ Len(users[pk].encrypted_email) = 4
          /\ users[pk].encrypted_email[4] = "tag"
          /\ \E damaged \in {[users[pk].encrypted_email EXCEPT ![4] = "forged"],
                             <<"nonce">>, <<>>} :
                users' = [users EXCEPT ![pk].encrypted_email = damaged]
    /\ UNCHANGED <<now, events, nreq, req, resp, store, threads, key>>

\* the plaintext column of one account is emptied (models.py: "TODO: Remove
\* this field after full migration to encrypted_email")
DropPlaintext ==
    /\ \E pk \in DOMAIN users :
          /\ users[pk].email # ""
          /\ users' = [users EXCEPT ![pk].email = ""]
    /\ UNCHANGED <<now, events, nreq, req, resp, store, threads, key>>

\* view_accounts.py loads an account and reads user.email_decrypted
ReadEmail ==
    /\ nreq < MaxRequests
    /\ \E pk \in DOMAIN users :
          /\ req' = [NoRequest EXCEPT !.user = pk, !.op = "email_decrypted"]
          /\ resp' = email_decrypted(users[pk], "", key)
    /\ nreq' = nreq + 1
    /\ UNCHANGED <<now, users, events, store, threads, key>>

NextEmail == Rekey \/ Corrupt \/ DropPlaintext \/ ReadEmail

SpecEmail == InitEmail /\ [][NextEmail]_vars

\* the stored ciphertext of the row does not decrypt under the configured key
CannotDecrypt(row) ==
    \/ key \notin {"key-A", "key-B"}
    \/ row.encrypted_email \notin {<<"nonce", key, e, "tag">> : e \in Emails}

\* C29: reading email_decrypted never raises; when the stored ciphertext cannot
\* be decrypted (tampered or truncated data, wrong key, missing key) it returns
\* the legacy plaintext, or the empty string when there is none.
C29_ReadNeverRaises ==
    [][nreq' = nreq + 1
        => /\ resp'.raised = ""
           /\ CannotDecrypt(users[req'.user])
              => resp'.value = users[req'.user].email]_vars

\* C26: events are immutable once written: no login, signup, profile change or
\* account deletion changes a field of an event already in the log, its user
\* reference included, or removes it.
C26_EventsImmutable ==
    [][\A i \in DOMAIN events : i \in DOMAIN events' /\ events'[i] = events[i]]_vars

\* names that are no username: too short, or with a character outside [A-Za-z0-9._-]
Malformed(username) == username \in {"a!", ""}
Strong(password) == password \in {"StrongPass1!", "AlicePass123!"}

\* the signup form is acceptable in the state the request met
ValidSignup(r) ==
    /\ ~Malformed(strip(r.username))
    /\ AccountsNamed(r.username) = {}
    /\ AccountsNamed(r.email) = {}
    /\ Strong(r.password)
    /\ r.password = r.confirm_password

\* C27: a signup POST from an address that is not throttled creates no account
\* and records one signup event with successful = false and reason
\* validation_error when the form fails validation (bad or taken username,
\* registered email, weak or mismatched password); when the form is valid it
\* creates exactly one account and records one event with successful = true.
C27_SignupOutcome ==
    [][(IsSignupPost /\ SignupsWithinHour(req'.ip) < 5)
        => /\ Len(events') = Len(events) + 1
           /\ \A i \in DOMAIN events : events'[i] = events[i]
           /\ LastEvent(events').event_type = SIGNUP
           /\ ~ValidSignup(req')
              => /\ users' = users
                 /\ ~LastEvent(events').successful
                 /\ LastEvent(events').reason = "validation_error"
           /\ ValidSignup(req')
              => /\ Len(users') = Len(users) + 1
                 /\ \A pk \in DOMAIN users : users'[pk] = users[pk]
                 /\ users'[Len(users')].username = strip(req'.username)
                 /\ LastEvent(events').successful
                 /\ LastEvent(events').user = Len(users')]_vars

\* a signup was rejected because its email, typed in capitals, is registered
C27_Witness ==
    /\ nreq > 0 /\ req.op = SIGNUP /\ req.method = "POST"
    /\ req.email = "ALICE@EXAMPLE.COM"
    /\ AccountsNamed(req.username) = {}
    /\ LastEvent(events).reason = "validation_error"
    /\ LastEvent(events).event_type = SIGNUP

\* the accounts of the table (deleted rows keep their place)
Accounts == {pk \in DOMAIN users : users[pk].pk # NoUser}

\* C24: no two accounts have usernames that are equal ignoring case, in every
\* state reachable by signups and username changes in any interleaving.
C24_UsernamesUniqueIgnoringCase ==
    \A a, b \in Accounts :
        a # b => lower(users[a].username) # lower(users[b].username)

DigestInvariant ==
    /\ \A a \in Accounts : (users[a].email_digest # <<>>) <=> (users[a].email # "")
    /\ \A a, b \in Accounts :
          a # b /\ users[a].email_digest # <<>>
              => users[a].email_digest # users[b].email_digest

\* C25: an account has an email digest iff it has an email, no two accounts
\* share a digest, and a step that creates an account (signups in flight at
\* once included) creates it with an email that no account already had,
\* ignoring case and surrounding whitespace.
C25_DigestUniqueUnderSignups ==
    [][/\ DigestInvariant
       /\ DigestInvariant'
       /\ Len(users') > Len(users)
              => \A a \in Accounts :
                     lower(strip(users[a].email))
                         # lower(strip(users'[Len(users')].email))]_vars

\* two signups with the same email in different letter case were in flight at
\* once: one created the account, the save of the other was refused
C25_Witness ==
    \E th, other \in SignupThreads :
        /\ threads[th].r.op = SIGNUP /\ threads[other].r.op = SIGNUP
        /\ threads[th].r.email # threads[other].r.email
        /\ lower(threads[th].r.email) = lower(threads[other].r.email)
        /\ threads[th].resp.status = 302
        /\ threads[other].resp.status = 500
        /\ Cardinality(Accounts) = 3

\* C31: a lock ends: lockedUntil is never later than 60 minutes from now, so an
\* account locked at time t is not locked at any time later than t + 60 minutes
\* unless lockedUntil is stored anew; nothing changes lockedUntil while the
\* account is locked (login attempts on it included), and a new lockedUntil is
\* stored only by a threshold transition on an account that is not locked.
C31_LockAlwaysEnds ==
    [][\A pk \in DOMAIN users :
        /\ users'[pk].locked_until # None => users'[pk].locked_until <= now' + 3600
        /\ Locked(pk) => users'[pk].locked_until = users[pk].locked_until
        /\ (users'[pk].locked_until # users[pk].locked_until
            /\ users'[pk].locked_until # None)
           => /\ LoginAttemptOn(pk) /\ ~Locked(pk) /\ ~PasswordOf(pk, req'.password)
              /\ users[pk].failed_login_attempts = 4
              /\ users'[pk].locked_until = now + 3600]_vars

\* a login was attempted on a locked account during the lock, and more than 60
\* minutes after the lock began the account is not locked
C31_Witness ==
    /\ nreq > 0 /\ req.op = LOGIN
    /\ resp.alert_message = MSG_LOCKED
    /\ \E pk \in AccountsNamed(req.username) :
          /\ users[pk].locked_until # None
          /\ LastEvent(events).user = pk
          /\ LastEvent(events).created_at > users[pk].locked_until - 3600
          /\ LastEvent(events).created_at < users[pk].locked_until
          /\ now > users[pk].locked_until
          /\ ~Locked(pk)

\* C32: a login POST that names a locked account, and a login POST from a
\* throttled address, leave failedAttempts, lockedUntil and lastFailedAt of the
\* account unchanged, whatever the password.
C32_LockedAndThrottledTouchNothing ==
    [][\A pk \in DOMAIN users :
        (/\ IsLoginPost
         /\ Names(req'.username, pk)
         /\ Locked(pk) \/ FailedLoginsWithin15Min(req'.ip) >= 5)
        => Lockout(users'[pk]) = Lockout(users[pk])]_vars

\* the right password was submitted for a locked account from an address that
\* is not throttled, and was answered "locked"
C32_Witness ==
    /\ nreq > 0 /\ req.op = LOGIN /\ req.method = "POST"
    /\ resp.alert_message = MSG_LOCKED
    /\ \E pk \in AccountsNamed(req.username) :
          /\ PasswordOf(pk, req.password)
          /\ Locked(pk)
          /\ users[pk].last_failed_login_at # None
    /\ Cardinality({i \in DOMAIN events : events[i].ip_address = req.ip}) = 1

\* C33: while an account is locked (lockedUntil stored and later than now) no
\* step of any login request in flight clears lockedUntil or stores another
\* value in it.
C33_LockNotClearedEarly ==
    [][\A pk \in DOMAIN users :
        Locked(pk) => users'[pk].locked_until = users[pk].locked_until]_vars

\* no request is between its arrival and its response
NothingInProgress == \A th \in Threads : threads[th].pc \in {"idle", "done"}

\* every request received so far is a login with a wrong password for account pk
OnlyWrongPasswordsOn(pk) ==
    \A th \in Threads :
        threads[th].pc # "idle"
        => /\ threads[th].r.op = LOGIN
           /\ Names(threads[th].r.username, pk)
           /\ ~PasswordOf(pk, threads[th].r.password)

\* C34: when no login attempt is in progress and the account is locked, its
\* failedAttempts is 0, in every interleaving of wrong-password attempts on it.
C34_LockedMeansCounterZero ==
    \A pk \in DOMAIN users :
        (NothingInProgress /\ OnlyWrongPasswordsOn(pk) /\ Locked(pk))
        => users[pk].failed_login_attempts = 0

\* no login attempt on account pk is between its arrival and its response
NoAttemptInProgressOn(pk) ==
    \A th \in Threads :
        (threads[th].r.op = LOGIN /\ Names(threads[th].r.username, pk))
        => threads[th].pc \in {"idle", "done"}

\* C35: whenever no login attempt on an account is in progress, its stored
\* failedAttempts is in 0..4, in every interleaving of login attempts (handled
\* one after the other included).
C35_CounterBelowThresholdAtRest ==
    \A pk \in DOMAIN users :
        NoAttemptInProgressOn(pk) => users[pk].failed_login_attempts \in 0..4

\* two attempts that both read the counter at 4 have both gone through the
\* threshold transition and are finished
C35_Witness ==
    /\ \A pk \in DOMAIN users : NoAttemptInProgressOn(pk)
    /\ \E th, other \in LoginThreads :
          /\ th # other
          /\ threads[th].resp.alert_message = MSG_LOCKED_NOW
          /\ threads[other].resp.alert_message = MSG_LOCKED_NOW
          /\ threads[th].pc = "done" /\ threads[other].pc = "done"

\* C37: in every interleaving of requests from one address, the signup events
\* from that address within one hour never number more than 5, nor the failed
\* login events from it within 15 minutes.
C37_EventsPerWindowBounded ==
    \A ip \in IPs : SignupsWithinHour(ip) <= 5 /\ FailedLoginsWithin15Min(ip) <= 5

\* the failed login events from the address that the limiter counts now
CountedFailures(ip) == {i \in EventsWithin(LOGIN, ip, 900) : ~events[i].successful}

\* createdAt of the oldest of them
OldestCountedFailure(ip) ==
    LET counted == CountedFailures(ip)
        oldest == CHOOSE i \in counted :
                      \A j \in counted : events[i].created_at <= events[j].created_at
    IN events[oldest].created_at

CountedAt(log, kind, ip, t) ==
    {i \in DOMAIN log :
        /\ log[i].event_type = kind
        /\ log[i].ip_address = ip
        /\ kind = LOGIN => ~log[i].successful /\ t - log[i].created_at <= 900
        /\ kind = SIGNUP => t - log[i].created_at <= 3600}

====
